---- MODULE Spec2Model ----
(***************************************************************************)
(* Generation orchestration engine of avneeshBotProject: the POST          *)
(* /api/chat handler of each server revision kept in the repository, its   *)
(* waterfall of generation backends, context assembly and persistence.     *)
(*                                                                         *)
(* Revisions (variable `route`):                                           *)
(*   "v4"  src/unnamed/part_004  v3.7.1, AbortController + AI_WATERFALL    *)
(*   "v5"  src/unnamed/part_005  streaming route                           *)
(*   "v3"  src/unnamed/part_003  buffered route with stored history        *)
(*   "v2"  src/unnamed/part_002  stateless Ollama + Gemini fallback        *)
(*   "v1"  src/unnamed/part_001  cloud-only MODEL_FALLBACK_ORDER loop      *)
(*   "v0"  src/unnamed/part_000  in-memory chatHistory                     *)
(*   "srv" src/server.js         buffered route with lazy session creation *)
(*                                                                         *)
(* Text is a sequence of tokens.  A token produced by a backend is the     *)
(* position of that backend in the route's waterfall (1 = local Ollama     *)
(* tier, 1 + i = i-th cloud model), so the provenance of every piece of    *)
(* reply text can be read off the text itself.                             *)
(***************************************************************************)
EXTENDS Integers, Sequences, FiniteSets, TLC

VARIABLES
    route,          \* which revision of server.js this process runs
    OLLAMA_URL,     \* TRUE iff the local tier is configured
    ai,             \* TRUE iff the cloud client exists (GEMINI_API_KEY set)
    users,          \* set of user ids that have a row in table users
    chat_sessions,  \* table chat_sessions: sequence, session_id = index
    chat_records,   \* table chat_records in timestamp order
    chatHistory,    \* part_000: process-wide in-memory history
    lastMode,       \* part_000: persona of the previous request
    summTasks,      \* runs of the title summarizer: slot 1 the immediate trigger
                    \* of the request, the other slots runs of the interval worker
    req,            \* the request being handled
    pc,             \* position of the handler
    loc,            \* the handler's local variables
    calls,          \* tier invocations of the request, in order
    timer,          \* TRUE iff the tier-1 abort timer is armed
    late,           \* TRUE iff the aborted tier-1 call may still be answered
    overran,        \* TRUE iff the tier-1 attempt was still awaited when
                    \* CONFIG.OLLAMA_TIMEOUT had elapsed since it began
    res,            \* what the caller has received for the current request
    net             \* part_005: the body of the local tier's streamed response:
                    \* the reads still to arrive and the decoder's line buffer

storeVars == <<users, chat_sessions, chat_records, chatHistory, lastMode, summTasks>>
confVars  == <<route, OLLAMA_URL, ai>>
vars == <<route, OLLAMA_URL, ai, users, chat_sessions, chat_records, chatHistory,
          lastMode, summTasks, req, pc, loc, calls, timer, late, overran, res, net>>

-----------------------------------------------------------------------------
(* Bounds of the model *)

(* Stored turns of the longest thread at start: more than CONTEXT_WINDOW *)
MaxInitTurns == 17
(* Chunks streamed to the caller during one request, over all its tiers *)
MaxChunks == 2
(* Runs of the interval worker that can be in progress at the same time *)
MaxSweeps == 2

(* LIMIT 5 of the worker's query, part_004 line 405 *)
SWEEP_BATCH == 5

(* CONFIG.CONTEXT_WINDOW, part_004 line 49 *)
CONTEXT_WINDOW == 15

NULL == 0
Registered == {1, 2}
GuestId == Cardinality(Registered) + 1

Routes == {"v4", "v5", "v3", "v2", "v1", "v0", "srv"}

(* Revisions backed by the database, and revisions behind optionalAuth *)
StoreRoutes == {"v4", "v5", "v3", "srv"}

-----------------------------------------------------------------------------
(* Text *)

Truthy(text) == text # <<>>

Prompt == <<100>>
SeedText(i) == <<200 + i>>

(* The tokens of a text that a backend produced, as the set of producing tiers *)
Producers(text) == {text[i] : i \in {j \in 1..Len(text) : text[j] < 90}}

Reverse(s) == [i \in 1..Len(s) |-> s[Len(s) + 1 - i]]

RECURSIVE SelectSeq2(_, _)
SelectSeq2(s, sid) ==
    IF s = <<>> THEN <<>>
    ELSE IF Head(s).session_id = sid
         THEN <<Head(s)>> \o SelectSeq2(Tail(s), sid)
         ELSE SelectSeq2(Tail(s), sid)

(* SELECT ... FROM chat_records WHERE session_id = $1 ORDER BY timestamp *)
RecordsOf(sid) == SelectSeq2(chat_records, sid)

(* ... ORDER BY timestamp DESC LIMIT $2 *)
SelectDescLimit(sid, n) ==
    LET desc == Reverse(RecordsOf(sid))
    IN  SubSeq(desc, 1, IF Len(desc) < n THEN Len(desc) ELSE n)

-----------------------------------------------------------------------------
(* Configuration of the tiers *)

AI_WATERFALL == <<"Gemini 3.0 Flash", "Gemini 2.5 Flash", "Gemini 1.5 Pro">>

(* part_005 *)
GEMINI_FALLBACK_ORDER_5 ==
    <<"gemini-1.5-flash", "gemini-1.5-flash-latest", "gemini-1.5-pro",
      "gemini-1.5-pro-latest", "gemini-pro">>

(* part_003, second server *)
GEMINI_FALLBACK_ORDER_3 ==
    <<"gemini-2.5-flash-lite", "gemini-2.5-flash", "gemini-2.5-pro",
      "gemini-1.5-flash", "gemini-pro">>

(* part_002 *)
GEMINI_FALLBACK_ORDER_2 == <<"gemini-2.5-flash-lite", "gemini-2.5-flash", "gemini-2.5-pro">>

(* part_001 *)
MODEL_FALLBACK_ORDER ==
    <<"gemini-2.5-flash-lite", "gemini-2.5-flash", "gemini-2.0-flash", "gemini-2.5-pro">>

(* part_000 *)
GEMINI_FALLBACK_ORDER_0 == <<"gemini-2.0-flash-lite", "gemini-1.5-flash">>

OLLAMA_MODEL == IF route \in {"v0", "v2"} THEN "mistral:latest" ELSE "llama3.1:latest"

OllamaLabel == IF route = "v4" THEN "Ollama (llama3.1:latest)" ELSE OLLAMA_MODEL

CloudTiers ==
    CASE route = "v4" -> AI_WATERFALL
      [] route = "v5" -> GEMINI_FALLBACK_ORDER_5
      [] route = "v3" -> GEMINI_FALLBACK_ORDER_3
      [] route = "v2" -> GEMINI_FALLBACK_ORDER_2
      [] route = "v1" -> MODEL_FALLBACK_ORDER
      [] route = "v0" -> GEMINI_FALLBACK_ORDER_0
      [] OTHER        -> <<"gemini-1.5-flash">>

(* Configurations a revision can run with: part_005, part_003 and server.js
   default OLLAMA_URL to an address, so their local tier is always configured;
   part_001 has no local tier and exits at start without GEMINI_API_KEY *)
ConfigOk ==
    /\ route \in {"v5", "v3", "srv"} => OLLAMA_URL
    /\ route = "v1" => ai /\ ~OLLAMA_URL

(* Label of the tier at position k of the waterfall: 1 = local, 1 + i = cloud i *)
TierLabel(k) == IF k = 1 THEN OllamaLabel ELSE CloudTiers[k - 1]

-----------------------------------------------------------------------------
(* Runs of summarizeSessionWithOllama: the sessions still to summarize, the
   one in progress first, and the position inside the function *)

Task(kind, queue) ==
    [kind |-> kind, queue |-> queue, newTitle |-> "",
     pc |-> IF queue = <<>> THEN "done" ELSE "read"]

FreeTask == Task("none", <<>>)

(* The slot of a chat_sessions row that a DELETE has removed: session ids are
   serial and are not given out again *)
Purged == [user_id |-> NULL, session_name |-> "", is_summarized |-> FALSE]

-----------------------------------------------------------------------------
(* Initial state *)

SeedRecord(i) ==
    [session_id |-> 1, user_id |-> 1,
     role |-> IF i % 2 = 1 THEN "user" ELSE "model",
     message_text |-> SeedText(i),
     model_used |-> IF i % 2 = 1 THEN "user-input" ELSE "seed"]

InitTurnCounts == {0, 4, MaxInitTurns}

NoRes == [status |-> 0, kind |-> "none", content |-> <<>>, session_id |-> NULL,
          model_info |-> "none"]

NoReq == [user |-> NULL, session_id |-> NULL, prompt |-> <<>>, mode |-> "casual",
          history |-> <<>>]

(* A client-supplied transcript: three turns, the last with an unknown role *)
Transcript ==
    <<[role |-> "user", text |-> <<301>>], [role |-> "model", text |-> <<302>>],
      [role |-> "bot", text |-> <<303>>]>>

(* The history fields a request can carry; only part_003 and part_005 read it *)
Histories == IF route \in {"v5", "v3"} THEN {<<>>, Transcript} ELSE {<<>>}

(* No streamed body is being read *)
NoNet == [binary |-> "Buffer", stream |-> <<>>, reads |-> <<>>, buffer |-> <<>>]

InitLoc ==
    [currentUserId |-> NULL, chatContext |-> <<>>, fullReplyText |-> <<>>,
     modelUsed |-> "none", tier |-> 0, activeSessionId |-> NULL, aborted |-> FALSE,
     isFirstMessage |-> FALSE, streamingError |-> FALSE, chunks |-> 0]

Init ==
    /\ route \in Routes
    /\ OLLAMA_URL \in BOOLEAN
    /\ ai \in BOOLEAN
    /\ ConfigOk
    /\ users = Registered
    /\ IF route \in StoreRoutes
       THEN /\ chat_sessions = <<[user_id |-> 1, session_name |-> "New Conversation",
                                  is_summarized |-> FALSE]>>
            /\ \E n \in InitTurnCounts : chat_records = [i \in 1..n |-> SeedRecord(i)]
       ELSE /\ chat_sessions = <<>>
            /\ chat_records = <<>>
    /\ chatHistory = <<>>
    /\ lastMode = "none"
    /\ summTasks = [i \in 1..(1 + MaxSweeps) |-> FreeTask]
    /\ req = NoReq
    /\ pc = "idle"
    /\ loc = InitLoc
    /\ calls = <<>>
    /\ timer = FALSE
    /\ late = FALSE
    /\ overran = FALSE
    /\ res = NoRes
    /\ net = NoNet

-----------------------------------------------------------------------------
(* The request arrives: express parses the body, optionalAuth sets req.user *)

(* Who can call: the routes of part_000 and part_001 have no authentication *)
Callers == IF route \in StoreRoutes THEN {NULL} \cup Registered ELSE {NULL}

(* The first step of the handler of each revision *)
StartPc ==
    CASE route \in {"v4", "v5", "srv"} -> "identity"
      [] route = "v3" -> "context"
      [] route = "v2" -> "start"
      [] route = "v1" -> "loop"
      [] OTHER        -> "memory"

Receive(caller, sid, hist) ==
    /\ pc = "idle"
    /\ req' = [user |-> caller, session_id |-> sid, prompt |-> Prompt, mode |-> "casual",
               history |-> hist]
    /\ pc' = StartPc
    /\ UNCHANGED <<net, confVars, storeVars, loc, calls, timer, late, overran, res>>

-----------------------------------------------------------------------------
(* getOrCreateGuestUser and the identity step of the chat route (the same code
   in part_004, part_005 and server.js) *)

(* Outcome of getOrCreateGuestUser when the storage answers (dbOk) or throws *)
GuestOutcome(dbOk) ==
    IF ~dbOk THEN [id |-> NULL, users |-> users]
    ELSE [id |-> GuestId, users |-> users \cup {GuestId}]

ResolveIdentity(dbOk) ==
    /\ route \in {"v4", "v5", "srv"}
    /\ pc = "identity"
    /\ IF req.user # NULL
       THEN /\ dbOk
            /\ loc' = [loc EXCEPT !.currentUserId = req.user]
            /\ UNCHANGED users
       ELSE /\ loc' = [loc EXCEPT !.currentUserId = GuestOutcome(dbOk).id]
            /\ users' = GuestOutcome(dbOk).users
    /\ pc' = IF route = "v4" THEN "context" ELSE "session"
    /\ UNCHANGED <<net, confVars, chat_sessions, chat_records, chatHistory, lastMode,
                   summTasks, req, calls, timer, late, overran, res>>

(* msg.role === 'user' ? 'User' : 'Assistant' *)
ContextLine4(row) ==
    [role |-> IF row.role = "user" THEN "User" ELSE "Assistant",
     text |-> row.message_text]

(* history.rows.reverse().map(...) over the DESC LIMIT query *)
ChatContext4(sid) ==
    LET rows == SelectDescLimit(sid, CONTEXT_WINDOW)
        asc  == Reverse(rows)
    IN  [i \in 1..Len(asc) |-> ContextLine4(asc[i])]

LoadContext4(dbOk) ==
    /\ route = "v4"
    /\ pc = "context"
    /\ IF req.session_id # NULL
       THEN loc' = [loc EXCEPT !.chatContext =
                        IF dbOk THEN ChatContext4(req.session_id) ELSE <<>>]
       ELSE /\ dbOk
            /\ UNCHANGED loc
    /\ pc' = "tier1"
    /\ UNCHANGED <<net, confVars, storeVars, req, calls, timer, late, overran, res>>

(* fullAiPrompt: instructions, recent memory, current input *)
FullAiPrompt ==
    [instructions |-> req.mode, memory |-> loc.chatContext, input |-> req.prompt]

Invocation(k, p) == [tier |-> k, prompt |-> p]

-----------------------------------------------------------------------------
(* part_004: tier 1, the local node behind an AbortController *)

(* A dispatcher that enters the cloud cascade whatever tier 1 answered *)
CloudAlways(l) == ai

(* if (!fullReplyText && ai): whether the cloud cascade is entered *)
NeedCloud(l) == ~Truthy(l.fullReplyText) /\ ai

(* Where the handler goes once tier 1 is over, with locals l *)
AfterTier1(l) == IF NeedCloud(l) THEN "cloud" ELSE "persist"

EnterCloud(l) == [l EXCEPT !.tier = 1]

Tier1Skip4 ==
    /\ route = "v4"
    /\ pc = "tier1"
    /\ ~OLLAMA_URL
    /\ loc' = EnterCloud(loc)
    /\ pc' = AfterTier1(loc)
    /\ UNCHANGED <<net, confVars, storeVars, req, calls, timer, late, overran, res>>

(* setTimeout(() => controller.abort(), CONFIG.OLLAMA_TIMEOUT); await fetch(...) *)
Tier1Invoke4 ==
    /\ route = "v4"
    /\ pc = "tier1"
    /\ OLLAMA_URL
    /\ calls' = Append(calls, Invocation(1, FullAiPrompt))
    /\ timer' = TRUE
    /\ pc' = "t1_wait"
    /\ UNCHANGED <<net, confVars, storeVars, req, loc, late, overran, res>>

(* fetch resolves with the response headers; clearTimeout(timeoutId) *)
Tier1Headers4(ok) ==
    /\ route = "v4"
    /\ pc = "t1_wait"
    /\ timer' = FALSE
    /\ loc' = EnterCloud(loc)
    /\ pc' = IF ok THEN "t1_body" ELSE AfterTier1(loc)
    /\ UNCHANGED <<net, confVars, storeVars, req, calls, late, overran, res>>

(* fetch rejects with a transport error: the catch block, the timer stays armed *)
Tier1Error4 ==
    /\ route = "v4"
    /\ pc = "t1_wait"
    /\ loc' = EnterCloud(loc)
    /\ pc' = AfterTier1(loc)
    /\ UNCHANGED <<net, confVars, storeVars, req, calls, timer, late, overran, res>>

(* the timer fires while fetch is pending: controller.abort() rejects the fetch *)
Tier1Timeout4 ==
    /\ route = "v4"
    /\ pc = "t1_wait"
    /\ timer
    /\ timer' = FALSE
    /\ late' = TRUE
    /\ overran' = TRUE
    /\ loc' = [EnterCloud(loc) EXCEPT !.aborted = TRUE]
    /\ pc' = AfterTier1(loc)
    /\ UNCHANGED <<net, confVars, storeVars, req, calls, res>>

(* a timer left armed by the catch path fires: abort() of a settled fetch *)
StaleTimer4 ==
    /\ timer
    /\ pc # "t1_wait"
    /\ timer' = FALSE
    /\ UNCHANGED <<net, confVars, storeVars, req, pc, loc, calls, late, overran, res>>

(* CONFIG.OLLAMA_TIMEOUT elapses while response.json() is awaited: the timer
   was cleared when the headers arrived, so nothing runs and the read goes on *)
Deadline4 ==
    /\ route = "v4"
    /\ pc = "t1_body"
    /\ ~overran
    /\ overran' = TRUE
    /\ UNCHANGED <<net, confVars, storeVars, req, pc, loc, calls, timer, late, res>>

(* What the locals become when response.json() settles *)
Tier1BodyResult(l, out) ==
    CASE out = "text"  -> [l EXCEPT !.fullReplyText = <<1>>, !.modelUsed = OllamaLabel]
      [] out = "empty" -> [l EXCEPT !.fullReplyText = <<>>, !.modelUsed = OllamaLabel]
      [] OTHER         -> l

BodyOutcomes == {"text", "empty", "throw"}

Tier1Body4(out) ==
    /\ route = "v4"
    /\ pc = "t1_body"
    /\ loc' = Tier1BodyResult(loc, out)
    /\ pc' = AfterTier1(loc')
    /\ UNCHANGED <<net, confVars, storeVars, req, calls, timer, late, overran, res>>

(* What a response to an aborted fetch does to the handler's locals: nothing,
   the promise was already rejected and nothing else reads the response *)
OnLateResponse(l) == l

LateResponse4 ==
    /\ late
    /\ late' = FALSE
    /\ loc' = OnLateResponse(loc)
    /\ UNCHANGED <<net, confVars, storeVars, req, pc, calls, timer, overran, res>>

-----------------------------------------------------------------------------
(* part_004: cloud cascade over AI_WATERFALL *)

CloudInvoke4 ==
    /\ route = "v4"
    /\ pc = "cloud"
    /\ calls' = Append(calls, Invocation(1 + loc.tier, FullAiPrompt))
    /\ pc' = "c_wait"
    /\ UNCHANGED <<net, confVars, storeVars, req, loc, timer, late, overran, res>>

(* if (fullReplyText) { modelUsed = tier.label; break; } *)
CloudBreak4(text) == Truthy(text)

(* The locals after cloud tier l.tier settled with out *)
CloudResult4(l, out) ==
    CASE out = "text"  -> [l EXCEPT !.fullReplyText = <<1 + l.tier>>,
                                    !.modelUsed = TierLabel(1 + l.tier)]
      [] out = "empty" -> [l EXCEPT !.fullReplyText = <<>>]
      [] OTHER         -> l

(* A loop that passes over the tier that follows the failed one *)
LoopSkip4(l) ==
    IF l.tier + 1 < Len(AI_WATERFALL)
    THEN [pc |-> "cloud", loc |-> [l EXCEPT !.tier = l.tier + 2]]
    ELSE [pc |-> "persist", loc |-> l]

(* for (const tier of AI_WATERFALL): the next iteration, or the end of the loop *)
LoopNext4(l) ==
    IF l.tier < Len(AI_WATERFALL)
    THEN [pc |-> "cloud", loc |-> [l EXCEPT !.tier = l.tier + 1]]
    ELSE [pc |-> "persist", loc |-> l]

CloudSettle4(out) ==
    /\ route = "v4"
    /\ pc = "c_wait"
    /\ LET l == CloudResult4(loc, out)
       IN  IF out # "throw" /\ CloudBreak4(l.fullReplyText)
           THEN /\ loc' = l
                /\ pc' = "persist"
           ELSE /\ loc' = LoopNext4(l).loc
                /\ pc' = LoopNext4(l).pc
    /\ UNCHANGED <<net, confVars, storeVars, req, calls, timer, late, overran, res>>

-----------------------------------------------------------------------------
(* part_004: summarizeSessionWithOllama and the interval worker *)

(* summarizeSessionWithOllama returns: a worker run goes on with its next row *)
RunEnd(t) == Task(t.kind, Tail(t.queue))

(* historyRes = SELECT message_text ... LIMIT 20; if (rows.length === 0) return;
   if (CONFIG.OLLAMA_URL) the title request is sent *)
SummRead(i, dbOk) ==
    /\ route = "v4"
    /\ summTasks[i].pc = "read"
    /\ LET t == summTasks[i]
           attempt == dbOk /\ RecordsOf(Head(t.queue)) # <<>> /\ OLLAMA_URL
       IN  summTasks' = [summTasks EXCEPT
                            ![i] = IF attempt THEN [t EXCEPT !.pc = "gen"] ELSE RunEnd(t)]
    /\ UNCHANGED <<net, confVars, users, chat_sessions, chat_records, chatHistory, lastMode,
                   req, pc, loc, calls, timer, late, overran, res>>

(* What the node can return for the title prompt after the clean-up *)
SummaryTitles == {"Generated", "Generated again"}

(* fetch + response.json() + the clean-up of data.response: a title, an empty
   title, or a failure (transport error, abort after 80 s, !response.ok) *)
SummGenerate(i, out) ==
    /\ route = "v4"
    /\ summTasks[i].pc = "gen"
    /\ LET t == summTasks[i]
       IN  summTasks' = [summTasks EXCEPT
                            ![i] = IF out \in SummaryTitles
                                   THEN [t EXCEPT !.pc = "update", !.newTitle = out]
                                   ELSE RunEnd(t)]
    /\ UNCHANGED <<net, confVars, users, chat_sessions, chat_records, chatHistory, lastMode,
                   req, pc, loc, calls, timer, late, overran, res>>

(* A row that loses its finalized mark when it is titled once more *)
Retitled(sess, title) ==
    [sess EXCEPT !.session_name = title, !.is_summarized = ~sess.is_summarized]

(* UPDATE chat_sessions SET session_name = $1, is_summarized = TRUE *)
Summarized(sess, title) ==
    [sess EXCEPT !.session_name = title, !.is_summarized = TRUE]

(* ... WHERE session_id = $2 *)
SummUpdate(i, dbOk) ==
    /\ route = "v4"
    /\ summTasks[i].pc = "update"
    /\ LET t   == summTasks[i]
           sid == Head(t.queue)
       IN  /\ summTasks' = [summTasks EXCEPT ![i] = RunEnd(t)]
           /\ IF dbOk /\ sid \in 1..Len(chat_sessions)
              THEN chat_sessions' =
                      [chat_sessions EXCEPT ![sid] = Summarized(@, t.newTitle)]
              ELSE UNCHANGED chat_sessions
    /\ UNCHANGED <<net, confVars, users, chat_records, chatHistory, lastMode,
                   req, pc, loc, calls, timer, late, overran, res>>

(* SELECT session_id FROM chat_sessions WHERE is_summarized = FALSE *)
Unsummarized ==
    SelectSeq([i \in 1..Len(chat_sessions) |-> i],
              LAMBDA sid : chat_sessions[sid] # Purged /\ ~chat_sessions[sid].is_summarized)

(* ... LIMIT 5: the query has no ORDER BY, the rows come in the order of the
   scan, forward or backward over the primary key *)
Pending(order) ==
    LET rows == IF order = "asc" THEN Unsummarized ELSE Reverse(Unsummarized)
    IN  SubSeq(rows, 1, IF Len(rows) < SWEEP_BATCH THEN Len(rows) ELSE SWEEP_BATCH)

(* The setInterval callback fires, whether or not an earlier run has ended *)
SweepTick(i, order) ==
    /\ route = "v4"
    /\ i \in 2..(1 + MaxSweeps)
    /\ summTasks[i].pc = "done"
    /\ \A j \in 2..(i - 1) : summTasks[j].pc # "done"
    /\ summTasks' = [summTasks EXCEPT ![i] = Task("sweep", Pending(order))]
    /\ UNCHANGED <<net, confVars, users, chat_sessions, chat_records, chatHistory, lastMode,
                   req, pc, loc, calls, timer, late, overran, res>>

-----------------------------------------------------------------------------
(* part_004: data persistence and final dispatch *)

Response(status, kind, content, sid, model) ==
    [status |-> status, kind |-> kind, content |-> content, session_id |-> sid,
     model_info |-> model]

NewSession(owner, name) ==
    [user_id |-> owner, session_name |-> name, is_summarized |-> FALSE]

ChatRecord(sid, uid, role, text, model) ==
    [session_id |-> sid, user_id |-> uid, role |-> role, message_text |-> text,
     model_used |-> model]

(* chat_records.session_id REFERENCES chat_sessions(session_id) *)
SessionExists(sid) == sid \in 1..Len(chat_sessions) /\ chat_sessions[sid] # Purged

(* else branch: all tiers failed to produce a response *)
Exhausted4 ==
    /\ route = "v4"
    /\ pc = "persist"
    /\ ~Truthy(loc.fullReplyText)
    /\ res' = Response(500, "exhausted", <<>>, NULL, "none")
    /\ pc' = "done"
    /\ UNCHANGED <<net, confVars, storeVars, req, loc, calls, timer, late, overran>>

(* let activeSessionId = session_id; if (!activeSessionId) INSERT INTO chat_sessions;
   summarizeSessionWithOllama(activeSessionId) is fired and not awaited *)
BeginPersist4(dbOk) ==
    /\ route = "v4"
    /\ pc = "persist"
    /\ Truthy(loc.fullReplyText)
    /\ IF req.session_id # NULL
       THEN /\ dbOk
            /\ loc' = [loc EXCEPT !.activeSessionId = req.session_id]
            /\ pc' = "save_user"
            /\ UNCHANGED <<chat_sessions, summTasks, res>>
       ELSE IF dbOk
            THEN /\ chat_sessions' = Append(chat_sessions,
                                        NewSession(loc.currentUserId, "New Conversation"))
                 /\ loc' = [loc EXCEPT !.activeSessionId = Len(chat_sessions) + 1]
                 /\ summTasks' = [summTasks EXCEPT
                                     ![1] = Task("trigger", <<Len(chat_sessions) + 1>>)]
                 /\ pc' = "save_user"
                 /\ UNCHANGED res
            ELSE /\ res' = Response(500, "dberror", <<>>, NULL, "none")
                 /\ pc' = "done"
                 /\ UNCHANGED <<chat_sessions, summTasks, loc>>
    /\ UNCHANGED <<net, confVars, users, chat_records, chatHistory, lastMode, req,
                   calls, timer, late, overran>>

(* await pool.query(saveQ, [..., "user", prompt, mode, "user-input"]) *)
SaveUser4(dbOk) ==
    /\ route = "v4"
    /\ pc = "save_user"
    /\ IF dbOk /\ SessionExists(loc.activeSessionId)
       THEN /\ chat_records' = Append(chat_records,
                  ChatRecord(loc.activeSessionId, loc.currentUserId, "user",
                             req.prompt, "user-input"))
            /\ pc' = "save_model"
            /\ UNCHANGED res
       ELSE /\ res' = Response(500, "dberror", <<>>, NULL, "none")
            /\ pc' = "done"
            /\ UNCHANGED chat_records
    /\ UNCHANGED <<net, confVars, users, chat_sessions, chatHistory, lastMode, summTasks,
                   req, loc, calls, timer, late, overran>>

(* await pool.query(saveQ, [..., "model", fullReplyText, mode, modelUsed]); res.json *)
SaveModel4(dbOk) ==
    /\ route = "v4"
    /\ pc = "save_model"
    /\ IF dbOk /\ SessionExists(loc.activeSessionId)
       THEN /\ chat_records' = Append(chat_records,
                  ChatRecord(loc.activeSessionId, loc.currentUserId, "model",
                             loc.fullReplyText, loc.modelUsed))
            /\ res' = Response(200, "success", loc.fullReplyText, loc.activeSessionId,
                               loc.modelUsed)
       ELSE /\ res' = Response(500, "dberror", <<>>, NULL, "none")
            /\ UNCHANGED chat_records
    /\ pc' = "done"
    /\ UNCHANGED <<net, confVars, users, chat_sessions, chatHistory, lastMode, summTasks,
                   req, loc, calls, timer, late, overran>>

-----------------------------------------------------------------------------
(* part_005: streaming chat route *)

(* The apology written when no model produced text *)
Sorry == <<90>>

(* if ((!session_id || ...) && currentUserId) INSERT INTO chat_sessions;
   session_id = parseInt(session_id); res.setHeader('x-session-id', session_id) *)
Session5(dbOk) ==
    /\ route = "v5"
    /\ pc = "session"
    /\ IF req.session_id = NULL /\ loc.currentUserId # NULL
       THEN IF dbOk
            THEN /\ chat_sessions' = Append(chat_sessions,
                        NewSession(loc.currentUserId,
                                   IF req.user = NULL THEN "Guest Chat" ELSE "New Chat"))
                 /\ loc' = [loc EXCEPT !.activeSessionId = Len(chat_sessions) + 1]
            ELSE /\ loc' = [loc EXCEPT !.activeSessionId = NULL]
                 /\ UNCHANGED chat_sessions
       ELSE /\ dbOk
            /\ loc' = [loc EXCEPT !.activeSessionId = req.session_id]
            /\ UNCHANGED chat_sessions
    /\ res' = [res EXCEPT !.session_id = loc'.activeSessionId]
    /\ pc' = "context"
    /\ UNCHANGED <<net, confVars, users, chat_records, chatHistory, lastMode, summTasks, req,
                   calls, timer, late, overran>>

(* dbHistory.rows.map(r => ({ role: r.role, text: r.message_text })): no LIMIT *)
ContextMessages5(sid) ==
    LET rows == RecordsOf(sid)
    IN  [i \in 1..Len(rows) |-> [role |-> rows[i].role, text |-> rows[i].message_text]]

Context5(dbOk) ==
    /\ route = "v5"
    /\ pc = "context"
    /\ LET stored == IF dbOk /\ loc.activeSessionId # NULL
                     THEN ContextMessages5(loc.activeSessionId) ELSE <<>>
           first  == dbOk /\ loc.activeSessionId # NULL /\ stored = <<>>
       IN  loc' = [loc EXCEPT !.chatContext = IF stored = <<>> THEN req.history ELSE stored,
                              !.isFirstMessage = first]
    /\ pc' = "o_invoke"
    /\ UNCHANGED <<net, confVars, storeVars, req, calls, timer, late, overran, res>>

(* msg.role==='user'?'user':'assistant' (Ollama), 'user':'model' (Gemini) *)
RoleTagged(ctx, other) ==
    [i \in 1..Len(ctx) |->
        [role |-> IF ctx[i].role = "user" THEN "user" ELSE other, text |-> ctx[i].text]]

OllamaPrompt5 ==
    [instructions |-> req.mode, memory |-> RoleTagged(loc.chatContext, "assistant"),
     input |-> req.prompt]

(* if (!isLegacy) modelConfig.systemInstruction = systemInstruction *)
GeminiRequest5(i) ==
    [instructions |-> IF GEMINI_FALLBACK_ORDER_5[i] = "gemini-pro" THEN "none" ELSE req.mode,
     memory |-> RoleTagged(loc.chatContext, "model"), input |-> req.prompt]

AfterOllama5(l) == IF ~Truthy(l.fullReplyText) /\ ai THEN "g_invoke" ELSE "finish"

Ollama5Invoke ==
    /\ route = "v5"
    /\ pc = "o_invoke"
    /\ calls' = Append(calls, Invocation(1, OllamaPrompt5))
    /\ loc' = [loc EXCEPT !.tier = 1]
    /\ pc' = "o_wait"
    /\ UNCHANGED <<net, confVars, storeVars, req, timer, late, overran, res>>

(* if (response.ok && response.body) { modelUsed = OLLAMA_MODEL; ... } *)
Ollama5Headers(ok) ==
    /\ route = "v5"
    /\ pc = "o_wait"
    /\ IF ok
       THEN /\ loc' = [loc EXCEPT !.modelUsed = OLLAMA_MODEL]
            /\ pc' = "o_stream"
       ELSE /\ pc' = AfterOllama5(loc)
            /\ UNCHANGED loc
    /\ UNCHANGED <<net, confVars, storeVars, req, calls, timer, late, overran, res>>

(* fetch rejects, or the body stream throws: catch (e) { "Ollama Skipped" } *)
Ollama5Error ==
    /\ route = "v5"
    /\ pc \in {"o_wait", "o_stream"}
    /\ pc' = AfterOllama5(loc)
    /\ UNCHANGED <<net, confVars, storeVars, req, loc, calls, timer, late, overran, res>>

(* res.write(text); fullReplyText += text *)
Emit(l, text) == [l EXCEPT !.fullReplyText = @ \o text, !.chunks = @ + 1]

(* A response body that keeps only the fragment written last *)
WriteLast(r, text) == [r EXCEPT !.status = 200, !.kind = "streaming", !.content = text]

(* res.write(text) on the chunked response *)
Write(r, text) == [r EXCEPT !.status = 200, !.kind = "streaming", !.content = @ \o text]

(* a complete record with a response field is decoded and forwarded *)
Ollama5Chunk ==
    /\ route = "v5"
    /\ pc = "o_stream"
    /\ loc.chunks < MaxChunks
    /\ loc' = Emit(loc, <<1>>)
    /\ res' = Write(res, <<1>>)
    /\ UNCHANGED <<net, confVars, storeVars, req, pc, calls, timer, late, overran>>

Ollama5End ==
    /\ route = "v5"
    /\ pc = "o_stream"
    /\ pc' = AfterOllama5(loc)
    /\ UNCHANGED <<net, confVars, storeVars, req, loc, calls, timer, late, overran, res>>

(* for (const modelName of GEMINI_FALLBACK_ORDER): next model, or the loop ends *)
LoopNext5(l) ==
    IF l.tier < Len(GEMINI_FALLBACK_ORDER_5)
    THEN [pc |-> "g_invoke", loc |-> [l EXCEPT !.tier = l.tier + 1]]
    ELSE [pc |-> "finish", loc |-> l]

Gemini5Invoke ==
    /\ route = "v5"
    /\ pc = "g_invoke"
    /\ calls' = Append(calls, Invocation(1 + loc.tier, GeminiRequest5(loc.tier)))
    /\ pc' = "g_wait"
    /\ UNCHANGED <<net, confVars, storeVars, req, loc, timer, late, overran, res>>

(* generateContentStream resolved: modelUsed = modelName *)
Gemini5Start ==
    /\ route = "v5"
    /\ pc = "g_wait"
    /\ loc' = [loc EXCEPT !.modelUsed = TierLabel(1 + loc.tier)]
    /\ pc' = "g_stream"
    /\ UNCHANGED <<net, confVars, storeVars, req, calls, timer, late, overran, res>>

Gemini5Chunk ==
    /\ route = "v5"
    /\ pc = "g_stream"
    /\ loc.chunks < MaxChunks
    /\ loc' = Emit(loc, <<1 + loc.tier>>)
    /\ res' = Write(res, <<1 + loc.tier>>)
    /\ UNCHANGED <<net, confVars, storeVars, req, pc, calls, timer, late, overran>>

(* the stream is exhausted: streamingError = null; break *)
Gemini5End ==
    /\ route = "v5"
    /\ pc = "g_stream"
    /\ loc' = [loc EXCEPT !.streamingError = FALSE]
    /\ pc' = "finish"
    /\ UNCHANGED <<net, confVars, storeVars, req, calls, timer, late, overran, res>>

(* generateContentStream or the stream throws: streamingError = e.message *)
Gemini5Error ==
    /\ route = "v5"
    /\ pc \in {"g_wait", "g_stream"}
    /\ LET l == [loc EXCEPT !.streamingError = TRUE]
       IN  /\ loc' = LoopNext5(l).loc
           /\ pc' = LoopNext5(l).pc
    /\ UNCHANGED <<net, confVars, storeVars, req, calls, timer, late, overran, res>>

(* if (!fullReplyText) { res.write(sorry); fullReplyText = sorry; }  res.end() *)
Finish5 ==
    /\ route = "v5"
    /\ pc = "finish"
    /\ IF Truthy(loc.fullReplyText)
       THEN /\ res' = [res EXCEPT !.status = 200, !.kind = "success"]
            /\ UNCHANGED loc
       ELSE /\ res' = [Write(res, Sorry) EXCEPT !.kind = "exhausted"]
            /\ loc' = [loc EXCEPT !.fullReplyText = Sorry]
    /\ pc' = "save_user"
    /\ UNCHANGED <<net, confVars, storeVars, req, calls, timer, late, overran>>

(* part_005's chat_records has no foreign key; NaN ids are rejected by the driver *)
InsertOk5(dbOk) == dbOk /\ loc.activeSessionId # NULL /\ loc.currentUserId # NULL

SaveUser5(dbOk) ==
    /\ route = "v5"
    /\ pc = "save_user"
    /\ IF InsertOk5(dbOk)
       THEN /\ chat_records' = Append(chat_records,
                  ChatRecord(loc.activeSessionId, loc.currentUserId, "user",
                             req.prompt, "user-input"))
            /\ pc' = "save_model"
       ELSE /\ pc' = "done"
            /\ UNCHANGED chat_records
    /\ UNCHANGED <<net, confVars, users, chat_sessions, chatHistory, lastMode, summTasks,
                   req, loc, calls, timer, late, overran, res>>

SaveModel5(dbOk) ==
    /\ route = "v5"
    /\ pc = "save_model"
    /\ IF InsertOk5(dbOk)
       THEN /\ chat_records' = Append(chat_records,
                  ChatRecord(loc.activeSessionId, loc.currentUserId, "model",
                             loc.fullReplyText, loc.modelUsed))
            /\ pc' = IF loc.isFirstMessage THEN "title" ELSE "done"
       ELSE /\ pc' = "done"
            /\ UNCHANGED chat_records
    /\ UNCHANGED <<net, confVars, users, chat_sessions, chatHistory, lastMode, summTasks,
                   req, loc, calls, timer, late, overran, res>>

Titles == {"Generated", "", "New Chat"}

(* if (currentTitle === 'New Chat' || 'Guest Chat') { newTitle = await
   generateSessionTitle(prompt); if (newTitle) UPDATE chat_sessions ... } *)
Title5(dbOk, newTitle) ==
    /\ route = "v5"
    /\ pc = "title"
    /\ LET sid == loc.activeSessionId
       IN  IF /\ dbOk
              /\ SessionExists(sid)
              /\ chat_sessions[sid].session_name \in {"New Chat", "Guest Chat"}
              /\ newTitle # ""
           THEN chat_sessions' = [chat_sessions EXCEPT ![sid].session_name = newTitle]
           ELSE UNCHANGED chat_sessions
    /\ pc' = "done"
    /\ UNCHANGED <<net, confVars, users, chat_records, chatHistory, lastMode, summTasks,
                   req, loc, calls, timer, late, overran, res>>

-----------------------------------------------------------------------------
(* part_003 (second server): buffered chat route over stored history *)

(* storedUserId = user ? String(user.user_id) : "guest" *)
GuestMarker == 0 - 1

StoredUserId3 == IF req.user # NULL THEN req.user ELSE GuestMarker

(* if (user && session_id && !isNaN(session_id)) stored history
   else if (Array.isArray(history)) the client's transcript *)
Context3(dbOk) ==
    /\ route = "v3"
    /\ pc = "context"
    /\ IF req.user # NULL /\ req.session_id # NULL
       THEN LET stored == IF dbOk THEN ContextMessages5(req.session_id) ELSE <<>>
            IN  loc' = [loc EXCEPT !.chatContext = stored,
                                   !.isFirstMessage = dbOk /\ stored = <<>>]
       ELSE /\ dbOk
            /\ loc' = [loc EXCEPT !.chatContext = req.history]
    /\ pc' = "o_invoke"
    /\ UNCHANGED <<net, confVars, storeVars, req, calls, timer, late, overran, res>>

Request3 ==
    [instructions |-> req.mode, memory |-> RoleTagged(loc.chatContext, "assistant"),
     input |-> req.prompt]

(* if (!replyText && ai): the Gemini loop is entered *)
AfterOllama3(l) == IF ~Truthy(l.fullReplyText) /\ ai THEN "g_invoke" ELSE "respond"

Ollama3Invoke ==
    /\ route = "v3"
    /\ pc = "o_invoke"
    /\ calls' = Append(calls, Invocation(1, Request3))
    /\ loc' = [loc EXCEPT !.tier = 1]
    /\ pc' = "o_wait"
    /\ UNCHANGED <<net, confVars, storeVars, req, timer, late, overran, res>>

Ollama3Headers(ok) ==
    /\ route = "v3"
    /\ pc = "o_wait"
    /\ pc' = IF ok THEN "o_body" ELSE AfterOllama3(loc)
    /\ UNCHANGED <<net, confVars, storeVars, req, loc, calls, timer, late, overran, res>>

Ollama3Error ==
    /\ route = "v3"
    /\ pc = "o_wait"
    /\ pc' = AfterOllama3(loc)
    /\ UNCHANGED <<net, confVars, storeVars, req, loc, calls, timer, late, overran, res>>

(* replyText = data.response; modelUsed = OLLAMA_MODEL; *)
Ollama3Body(out) ==
    /\ route = "v3"
    /\ pc = "o_body"
    /\ loc' = Tier1BodyResult(loc, out)
    /\ pc' = AfterOllama3(loc')
    /\ UNCHANGED <<net, confVars, storeVars, req, calls, timer, late, overran, res>>

Gemini3Invoke ==
    /\ route = "v3"
    /\ pc = "g_invoke"
    /\ calls' = Append(calls, Invocation(1 + loc.tier, Request3))
    /\ pc' = "g_wait"
    /\ UNCHANGED <<net, confVars, storeVars, req, loc, timer, late, overran, res>>

(* replyText = (await result.response).text(); modelUsed = modelName; break;
   a throw is caught inside the loop, which goes on with the next model *)
Gemini3Settle(out) ==
    /\ route = "v3"
    /\ pc = "g_wait"
    /\ IF out = "throw"
       THEN IF loc.tier < Len(GEMINI_FALLBACK_ORDER_3)
            THEN /\ loc' = [loc EXCEPT !.tier = @ + 1]
                 /\ pc' = "g_invoke"
            ELSE /\ pc' = "respond"
                 /\ UNCHANGED loc
       ELSE /\ loc' = [loc EXCEPT
                         !.fullReplyText = IF out = "text" THEN <<1 + loc.tier>> ELSE <<>>,
                         !.modelUsed = TierLabel(1 + loc.tier)]
            /\ pc' = "respond"
    /\ UNCHANGED <<net, confVars, storeVars, req, calls, timer, late, overran, res>>

(* if (!replyText) return res.status(503).json({ response: "AI unavailable." }) *)
Unavailable3 ==
    /\ route = "v3"
    /\ pc = "respond"
    /\ ~Truthy(loc.fullReplyText)
    /\ res' = Response(503, "exhausted", <<>>, NULL, "none")
    /\ pc' = "done"
    /\ UNCHANGED <<net, confVars, storeVars, req, loc, calls, timer, late, overran>>

(* the two inserts: chat_records.session_id and user_id are nullable VARCHARs
   without a foreign key, so only a storage failure makes an insert throw *)
Save3(dbUser, dbModel) ==
    /\ route = "v3"
    /\ pc = "respond"
    /\ Truthy(loc.fullReplyText)
    /\ dbModel => dbUser
    /\ chat_records' = chat_records
          \o (IF dbUser THEN <<ChatRecord(req.session_id, StoredUserId3, "user",
                                          req.prompt, "user-input")>> ELSE <<>>)
          \o (IF dbModel THEN <<ChatRecord(req.session_id, StoredUserId3, "model",
                                           loc.fullReplyText, loc.modelUsed)>> ELSE <<>>)
    /\ pc' = IF dbModel /\ req.user # NULL /\ req.session_id # NULL /\ loc.isFirstMessage
             THEN "title" ELSE "reply"
    /\ UNCHANGED <<net, confVars, users, chat_sessions, chatHistory, lastMode, summTasks,
                   req, loc, calls, timer, late, overran, res>>

(* const newTitle = await generateSessionTitle(prompt); UPDATE chat_sessions *)
Title3(dbOk, newTitle) ==
    /\ route = "v3"
    /\ pc = "title"
    /\ IF dbOk /\ SessionExists(req.session_id)
       THEN chat_sessions' = [chat_sessions EXCEPT ![req.session_id].session_name = newTitle]
       ELSE UNCHANGED chat_sessions
    /\ pc' = "reply"
    /\ UNCHANGED <<net, confVars, users, chat_records, chatHistory, lastMode, summTasks,
                   req, loc, calls, timer, late, overran, res>>

(* res.json({ response: replyText }) *)
Reply3 ==
    /\ route = "v3"
    /\ pc = "reply"
    /\ res' = Response(200, "success", loc.fullReplyText, NULL, "none")
    /\ pc' = "done"
    /\ UNCHANGED <<net, confVars, storeVars, req, loc, calls, timer, late, overran>>

-----------------------------------------------------------------------------
(* part_001: cloud-only fallback loop over MODEL_FALLBACK_ORDER *)

Outcomes1 == {"text", "empty", "quota", "fatal"}

(* isQuotaError: only a quota or rate-limit error continues the loop *)
ContinuesLoop1(out) == out = "quota"

Invoke1 ==
    /\ route = "v1"
    /\ pc = "loop"
    /\ loc' = [loc EXCEPT !.tier = @ + 1]
    /\ calls' = Append(calls, Invocation(2 + loc.tier,
                   [instructions |-> req.mode, memory |-> <<>>, input |-> req.prompt]))
    /\ pc' = "g_wait"
    /\ UNCHANGED <<net, confVars, storeVars, req, timer, late, overran, res>>

Settle1(out) ==
    /\ route = "v1"
    /\ pc = "g_wait"
    /\ IF out \in {"text", "empty"}
       THEN /\ res' = Response(200, "success",
                               IF out = "text" THEN <<1 + loc.tier>> ELSE <<>>,
                               NULL, TierLabel(1 + loc.tier))
            /\ pc' = "done"
       ELSE IF ContinuesLoop1(out)
            THEN IF loc.tier < Len(MODEL_FALLBACK_ORDER)
                 THEN /\ pc' = "loop"
                      /\ UNCHANGED res
                 ELSE /\ res' = Response(503, "exhausted", <<>>, NULL, "none")
                      /\ pc' = "done"
            ELSE /\ res' = Response(500, "fatal", <<>>, NULL, "none")
                 /\ pc' = "done"
    /\ UNCHANGED <<net, confVars, storeVars, req, loc, calls, timer, late, overran>>

-----------------------------------------------------------------------------
(* part_000: process-wide chatHistory *)

(* data.message?.content || "(No response)" *)
NoResponse == <<91>>

BotReply0(out) == IF out = "text" THEN <<1>> ELSE NoResponse

HistoryEntry(role, content) == [role |-> role, content |-> content]

(* reset the memory when the persona changed, then push the user's message *)
Memory0 ==
    /\ route = "v0"
    /\ pc = "memory"
    /\ chatHistory' = Append(IF lastMode # req.mode THEN <<>> ELSE chatHistory,
                             HistoryEntry("user", req.prompt))
    /\ lastMode' = req.mode
    /\ loc' = [loc EXCEPT !.tier = 1]
    /\ pc' = IF OLLAMA_URL THEN "o_invoke" ELSE IF ai THEN "g_invoke" ELSE "respond"
    /\ UNCHANGED <<net, confVars, users, chat_sessions, chat_records, summTasks, req, calls,
                   timer, late, overran, res>>

Request0 == [instructions |-> req.mode, memory |-> chatHistory, input |-> req.prompt]

Ollama0Invoke ==
    /\ route = "v0"
    /\ pc = "o_invoke"
    /\ calls' = Append(calls, Invocation(1, Request0))
    /\ pc' = "o_wait"
    /\ UNCHANGED <<net, confVars, storeVars, req, loc, timer, late, overran, res>>

(* fetch rejects, !response.ok throws, or response.json() throws *)
Ollama0Error ==
    /\ route = "v0"
    /\ pc = "o_wait"
    /\ pc' = IF ai THEN "g_invoke" ELSE "respond"
    /\ UNCHANGED <<net, confVars, storeVars, req, loc, calls, timer, late, overran, res>>

(* botReply = data.message?.content || "(No response)"; chatHistory.push; return *)
Ollama0Reply(out) ==
    /\ route = "v0"
    /\ pc = "o_wait"
    /\ chatHistory' = Append(chatHistory, HistoryEntry("assistant", BotReply0(out)))
    /\ loc' = [loc EXCEPT !.fullReplyText = BotReply0(out), !.modelUsed = "Ollama"]
    /\ res' = Response(200, "success", BotReply0(out), NULL, "Ollama")
    /\ pc' = "done"
    /\ UNCHANGED <<net, confVars, users, chat_sessions, chat_records, lastMode, summTasks,
                   req, calls, timer, late, overran>>

Gemini0Invoke ==
    /\ route = "v0"
    /\ pc = "g_invoke"
    /\ calls' = Append(calls, Invocation(1 + loc.tier, Request0))
    /\ pc' = "g_wait"
    /\ UNCHANGED <<net, confVars, storeVars, req, loc, timer, late, overran, res>>

(* botReply = result.response.text(); chatHistory.push(...); return res.json(...) *)
Gemini0Settle(out) ==
    /\ route = "v0"
    /\ pc = "g_wait"
    /\ IF out = "throw"
       THEN /\ IF loc.tier < Len(GEMINI_FALLBACK_ORDER_0)
               THEN /\ loc' = [loc EXCEPT !.tier = @ + 1]
                    /\ pc' = "g_invoke"
               ELSE /\ pc' = "respond"
                    /\ UNCHANGED loc
            /\ UNCHANGED <<chatHistory, res>>
       ELSE LET botReply == IF out = "text" THEN <<1 + loc.tier>> ELSE <<>>
            IN  /\ chatHistory' = Append(chatHistory, HistoryEntry("assistant", botReply))
                /\ loc' = [loc EXCEPT !.fullReplyText = botReply,
                                      !.modelUsed = TierLabel(1 + loc.tier)]
                /\ res' = Response(200, "success", botReply, NULL, TierLabel(1 + loc.tier))
                /\ pc' = "done"
    /\ UNCHANGED <<net, confVars, users, chat_sessions, chat_records, lastMode, summTasks,
                   req, calls, timer, late, overran>>

(* res.status(503).json({ reply: "Error: All AI services failed." }) *)
Unavailable0 ==
    /\ route = "v0"
    /\ pc = "respond"
    /\ res' = Response(503, "exhausted", <<>>, NULL, "none")
    /\ pc' = "done"
    /\ UNCHANGED <<net, confVars, storeVars, req, loc, calls, timer, late, overran>>

-----------------------------------------------------------------------------
(* server.js: lazy session creation, then the persona lookup *)

TitlesSrv == {"Generated", "", "New Conversation"}

(* if (!session_id && currentUserId) { title = await generateSessionTitle(prompt);
   INSERT INTO chat_sessions ... }  The next statement reads PERSONAS, which
   server.js never declares: the handler throws outside its try block and the
   request is left without a response *)
LazySessionSrv(dbOk, title) ==
    /\ route = "srv"
    /\ pc = "session"
    /\ IF req.session_id = NULL /\ loc.currentUserId # NULL /\ dbOk
       THEN /\ chat_sessions' = Append(chat_sessions, NewSession(loc.currentUserId, title))
            /\ loc' = [loc EXCEPT !.activeSessionId = Len(chat_sessions) + 1]
       ELSE /\ loc' = [loc EXCEPT !.activeSessionId = req.session_id]
            /\ UNCHANGED chat_sessions
    /\ pc' = "crashed"
    /\ UNCHANGED <<net, confVars, users, chat_records, chatHistory, lastMode, summTasks, req,
                   calls, timer, late, overran, res>>

-----------------------------------------------------------------------------
(* part_002: stateless route, Ollama first, then GEMINI_FALLBACK_ORDER *)

(* The text of the persona instruction when it is written into a message *)
PersonaText(mode) == <<400>>

(* prompt: `${systemInstruction}\nUser said: "${text}"\nReply:` *)
OllamaRequest2 == [instructions |-> req.mode, memory |-> <<>>, input |-> req.prompt]

(* contents: [{ role: "user", parts: [{ text: `${systemInstruction}\nUser said:
   "${text}"` }] }], config: { systemInstruction } *)
GeminiRequest2 ==
    [instructions |-> req.mode, memory |-> <<>>,
     input |-> PersonaText(req.mode) \o req.prompt]

AfterOllama2 == IF ai THEN "g_invoke" ELSE "respond"

Start2 ==
    /\ route = "v2"
    /\ pc = "start"
    /\ loc' = [loc EXCEPT !.tier = 1]
    /\ pc' = IF OLLAMA_URL THEN "o_invoke" ELSE AfterOllama2
    /\ UNCHANGED <<net, confVars, storeVars, req, calls, timer, late, overran, res>>

Ollama2Invoke ==
    /\ route = "v2"
    /\ pc = "o_invoke"
    /\ calls' = Append(calls, Invocation(1, OllamaRequest2))
    /\ pc' = "o_wait"
    /\ UNCHANGED <<net, confVars, storeVars, req, loc, timer, late, overran, res>>

(* fetch rejects, !response.ok throws, or response.json() throws *)
Ollama2Error ==
    /\ route = "v2"
    /\ pc = "o_wait"
    /\ pc' = AfterOllama2
    /\ UNCHANGED <<net, confVars, storeVars, req, loc, calls, timer, late, overran, res>>

(* return res.json({ reply: `[Ollama] ${data.response}` }) *)
Ollama2Reply(out) ==
    /\ route = "v2"
    /\ pc = "o_wait"
    /\ LET text == IF out = "text" THEN <<1>> ELSE <<>>
       IN  /\ loc' = [loc EXCEPT !.fullReplyText = text, !.modelUsed = "Ollama"]
           /\ res' = Response(200, "success", text, NULL, "Ollama")
    /\ pc' = "done"
    /\ UNCHANGED <<net, confVars, storeVars, req, calls, timer, late, overran>>

Gemini2Invoke ==
    /\ route = "v2"
    /\ pc = "g_invoke"
    /\ calls' = Append(calls, Invocation(1 + loc.tier, GeminiRequest2))
    /\ pc' = "g_wait"
    /\ UNCHANGED <<net, confVars, storeVars, req, loc, timer, late, overran, res>>

(* return res.json({ reply: `[Gemini: ${modelName}] ${response.text}` }), or the
   inner catch and the next model *)
Gemini2Settle(out) ==
    /\ route = "v2"
    /\ pc = "g_wait"
    /\ IF out = "throw"
       THEN /\ IF loc.tier < Len(GEMINI_FALLBACK_ORDER_2)
               THEN /\ loc' = [loc EXCEPT !.tier = @ + 1]
                    /\ pc' = "g_invoke"
               ELSE /\ pc' = "respond"
                    /\ UNCHANGED loc
            /\ UNCHANGED res
       ELSE LET text == IF out = "text" THEN <<1 + loc.tier>> ELSE <<>>
            IN  /\ loc' = [loc EXCEPT !.fullReplyText = text,
                                      !.modelUsed = TierLabel(1 + loc.tier)]
                /\ res' = Response(200, "success", text, NULL, TierLabel(1 + loc.tier))
                /\ pc' = "done"
    /\ UNCHANGED <<net, confVars, storeVars, req, calls, timer, late, overran>>

(* res.status(503).json({ reply: "AI service unavailable. ..." }) *)
Unavailable2 ==
    /\ route = "v2"
    /\ pc = "respond"
    /\ res' = Response(503, "exhausted", <<>>, NULL, "none")
    /\ pc' = "done"
    /\ UNCHANGED <<net, confVars, storeVars, req, loc, calls, timer, late, overran>>

-----------------------------------------------------------------------------
(* part_005: the line buffer that decodes the streamed body of the local tier.
   A body is a sequence of bytes; a record is written here as "{", the bytes
   of its response field, "}" and is followed by the line feed "LF".  The
   two bytes "C3" "A9" are the UTF-8 encoding of one accented letter. *)

(* chunk.toString() of a Buffer: UTF-8 decoding of this chunk alone, a byte of
   an incomplete sequence becomes the replacement character *)
RECURSIVE Utf8ToString(_)
Utf8ToString(bytes) ==
    IF bytes = <<>> THEN <<>>
    ELSE IF Len(bytes) >= 2 /\ bytes[1] = "C3" /\ bytes[2] = "A9"
         THEN <<"e-acute">> \o Utf8ToString(SubSeq(bytes, 3, Len(bytes)))
         ELSE IF bytes[1] \in {"C3", "A9"}
              THEN <<"U+FFFD">> \o Utf8ToString(Tail(bytes))
              ELSE <<bytes[1]>> \o Utf8ToString(Tail(bytes))

(* The decimal numeral of a byte *)
Numeral(byte) ==
    CASE byte = "{"  -> "123"
      [] byte = "}"  -> "125"
      [] byte = "LF" -> "10"
      [] byte = "a"  -> "97"
      [] byte = "b"  -> "98"
      [] byte = "C3" -> "195"
      [] OTHER       -> "169"

(* chunk.toString() of a Uint8Array: the decimal numerals of the bytes joined
   by commas *)
RECURSIVE JoinToString(_)
JoinToString(bytes) ==
    IF bytes = <<>> THEN <<>>
    ELSE IF Len(bytes) = 1 THEN <<Numeral(bytes[1])>>
         ELSE <<Numeral(bytes[1]), ",">> \o JoinToString(Tail(bytes))

(* chunk.toString(): the chunks of response.body are Buffers or Uint8Arrays,
   depending on the fetch the process runs with *)
ChunkToString(binary, chunk) ==
    IF binary = "Buffer" THEN Utf8ToString(chunk) ELSE JoinToString(chunk)

(* buffer.split("\n") *)
RECURSIVE SplitLines(_)
SplitLines(text) ==
    IF \A i \in 1..Len(text) : text[i] # "LF" THEN <<text>>
    ELSE LET k == CHOOSE i \in 1..Len(text) :
                      text[i] = "LF" /\ \A j \in 1..(i - 1) : text[j] # "LF"
         IN  <<SubSeq(text, 1, k - 1)>> \o SplitLines(SubSeq(text, k + 1, Len(text)))

(* JSON.parse(line) succeeds and yields an object *)
ParsesAsRecord(line) ==
    /\ Len(line) >= 2
    /\ line[1] = "{"
    /\ line[Len(line)] = "}"
    /\ \A i \in 2..(Len(line) - 1) : line[i] \notin {"{", "}"}

(* if (!line.trim()) continue; try { json = JSON.parse(line); if (json.response)
   ... json.response } catch(e) {} : the text one line forwards *)
LineResponse(line) ==
    IF ParsesAsRecord(line) THEN SubSeq(line, 2, Len(line) - 1) ELSE <<>>

(* for (const line of lines) { ... res.write(json.response) ... } *)
RECURSIVE Forwarded(_)
Forwarded(lines) ==
    IF lines = <<>> THEN <<>> ELSE LineResponse(Head(lines)) \o Forwarded(Tail(lines))

(* for await (const chunk of response.body): buffer += chunk.toString();
   lines = buffer.split("\n"); buffer = lines.pop(); the lines are forwarded *)
Ollama5Read ==
    /\ route = "v5"
    /\ pc = "o_stream"
    /\ net.reads # <<>>
    /\ LET text  == net.buffer \o ChunkToString(net.binary, Head(net.reads))
           lines == SplitLines(text)
           out   == Forwarded(SubSeq(lines, 1, Len(lines) - 1))
       IN  /\ net' = [net EXCEPT !.reads = Tail(@), !.buffer = lines[Len(lines)]]
           /\ IF out # <<>>
              THEN /\ loc' = Emit(loc, out)
                   /\ res' = Write(res, out)
              ELSE UNCHANGED <<loc, res>>
    /\ UNCHANGED <<confVars, storeVars, req, pc, calls, timer, late, overran>>

(* the body has ended: if (buffer.trim()) the remaining buffer is parsed and
   forwarded; then the Gemini fallback or the end of the response *)
Ollama5Flush ==
    /\ route = "v5"
    /\ pc = "o_stream"
    /\ net.stream # <<>>
    /\ net.reads = <<>>
    /\ LET out == LineResponse(net.buffer)
           l   == IF out # <<>> THEN Emit(loc, out) ELSE loc
       IN  /\ loc' = l
           /\ res' = IF out # <<>> THEN Write(res, out) ELSE res
           /\ pc' = AfterOllama5(l)
    /\ net' = [net EXCEPT !.buffer = <<>>]
    /\ UNCHANGED <<confVars, storeVars, req, calls, timer, late, overran>>

-----------------------------------------------------------------------------
(* PUT and DELETE /api/sessions/:id of part_004 and server.js, both behind
   authenticateToken *)

(* The title an owner types into the rename dialog *)
OwnerTitle == "Chosen by owner"

(* The request of a registered user u on the thread id in the URL *)
SessionRequest(u, sid) == [NoReq EXCEPT !.user = u, !.session_id = sid]

(* ... WHERE session_id = $2 AND user_id = $3 *)
OwnedBy(sid, u) == SessionExists(sid) /\ chat_sessions[sid].user_id = u

(* The rows of chat_records that are left when those of thread sid are deleted *)
WithoutThread(sid) == SelectSeq(chat_records, LAMBDA r : r.session_id # sid)

(* UPDATE chat_sessions SET session_name = $1 WHERE session_id = $2 AND user_id = $3;
   part_004 answers 404 when no row was updated, server.js answers 200 *)
RenameSession(u, sid, dbOk) ==
    /\ route \in {"v4", "srv"}
    /\ pc = "idle"
    /\ req' = SessionRequest(u, sid)
    /\ IF dbOk /\ OwnedBy(sid, u)
       THEN chat_sessions' = [chat_sessions EXCEPT ![sid].session_name = OwnerTitle]
       ELSE UNCHANGED chat_sessions
    /\ res' = IF ~dbOk THEN Response(500, "dberror", <<>>, NULL, "none")
              ELSE IF route = "v4" /\ ~OwnedBy(sid, u)
                   THEN Response(404, "denied", <<>>, NULL, "none")
                   ELSE Response(200, "success", <<>>, NULL, "none")
    /\ pc' = "managed"
    /\ UNCHANGED <<net, confVars, users, chat_records, chatHistory, lastMode, summTasks,
                   loc, calls, timer, late, overran>>

(* part_004: DELETE FROM chat_sessions WHERE session_id = $1 AND user_id = $2;
   the rows of chat_records go with it (ON DELETE CASCADE) *)
DeleteSession4(u, sid, dbOk) ==
    /\ route = "v4"
    /\ pc = "idle"
    /\ req' = SessionRequest(u, sid)
    /\ IF dbOk /\ OwnedBy(sid, u)
       THEN /\ chat_sessions' = [chat_sessions EXCEPT ![sid] = Purged]
            /\ chat_records' = WithoutThread(sid)
       ELSE UNCHANGED <<chat_sessions, chat_records>>
    /\ res' = IF dbOk THEN Response(200, "success", <<>>, NULL, "none")
              ELSE Response(500, "dberror", <<>>, NULL, "none")
    /\ pc' = "managed"
    /\ UNCHANGED <<net, confVars, users, chatHistory, lastMode, summTasks,
                   loc, calls, timer, late, overran>>

(* server.js: 1. DELETE FROM chat_records WHERE session_id = $1;
   2. DELETE FROM chat_sessions WHERE session_id = $1 AND user_id = $2 *)
DeleteSessionSrv(u, sid, dbRecords, dbSession) ==
    /\ route = "srv"
    /\ pc = "idle"
    /\ dbSession => dbRecords
    /\ req' = SessionRequest(u, sid)
    /\ chat_records' = IF dbRecords THEN WithoutThread(sid) ELSE chat_records
    /\ IF dbSession /\ OwnedBy(sid, u)
       THEN chat_sessions' = [chat_sessions EXCEPT ![sid] = Purged]
       ELSE UNCHANGED chat_sessions
    /\ res' = IF dbSession THEN Response(200, "success", <<>>, NULL, "none")
              ELSE Response(500, "dberror", <<>>, NULL, "none")
    /\ pc' = "managed"
    /\ UNCHANGED <<net, confVars, users, chatHistory, lastMode, summTasks,
                   loc, calls, timer, late, overran>>

-----------------------------------------------------------------------------
(* Specification *)

(* req.body.session_id: absent, the id of a stored thread, or an id that names
   no thread *)
SessionIds == 0..(Len(chat_sessions) + 1)

TaskIds == 1..(1 + MaxSweeps)

TitleOutcomes == SummaryTitles \cup {"empty", "fail"}

Next ==
    \/ \E c \in Callers, sid \in SessionIds, hist \in Histories : Receive(c, sid, hist)
    \/ \E u \in Registered, sid \in SessionIds, ok \in BOOLEAN : RenameSession(u, sid, ok)
    \/ \E u \in Registered, sid \in SessionIds, ok \in BOOLEAN : DeleteSession4(u, sid, ok)
    \/ \E u \in Registered, sid \in SessionIds, okR, okS \in BOOLEAN :
          DeleteSessionSrv(u, sid, okR, okS)
    \/ \E ok \in BOOLEAN : ResolveIdentity(ok)
    \/ \E ok \in BOOLEAN : LoadContext4(ok)
    \/ Tier1Skip4
    \/ Tier1Invoke4
    \/ \E ok \in BOOLEAN : Tier1Headers4(ok)
    \/ Tier1Error4
    \/ Tier1Timeout4
    \/ StaleTimer4
    \/ Deadline4
    \/ \E out \in BodyOutcomes : Tier1Body4(out)
    \/ LateResponse4
    \/ CloudInvoke4
    \/ \E out \in BodyOutcomes : CloudSettle4(out)
    \/ Exhausted4
    \/ \E ok \in BOOLEAN : BeginPersist4(ok)
    \/ \E ok \in BOOLEAN : SaveUser4(ok)
    \/ \E ok \in BOOLEAN : SaveModel4(ok)
    \/ \E i \in TaskIds, ok \in BOOLEAN : SummRead(i, ok)
    \/ \E i \in TaskIds, out \in TitleOutcomes : SummGenerate(i, out)
    \/ \E i \in TaskIds, ok \in BOOLEAN : SummUpdate(i, ok)
    \/ \E ok \in BOOLEAN : Session5(ok)
    \/ \E ok \in BOOLEAN : Context5(ok)
    \/ Ollama5Invoke
    \/ \E ok \in BOOLEAN : Ollama5Headers(ok)
    \/ Ollama5Error
    \/ Ollama5Chunk
    \/ Ollama5End
    \/ Gemini5Invoke
    \/ Gemini5Start
    \/ Gemini5Chunk
    \/ Gemini5End
    \/ Gemini5Error
    \/ Finish5
    \/ \E ok \in BOOLEAN : SaveUser5(ok)
    \/ \E ok \in BOOLEAN : SaveModel5(ok)
    \/ \E ok \in BOOLEAN, t \in Titles : Title5(ok, t)
    \/ \E ok \in BOOLEAN : Context3(ok)
    \/ Ollama3Invoke
    \/ \E ok \in BOOLEAN : Ollama3Headers(ok)
    \/ Ollama3Error
    \/ \E out \in BodyOutcomes : Ollama3Body(out)
    \/ Gemini3Invoke
    \/ \E out \in BodyOutcomes : Gemini3Settle(out)
    \/ Unavailable3
    \/ \E u, m \in BOOLEAN : Save3(u, m)
    \/ \E ok \in BOOLEAN, t \in Titles : Title3(ok, t)
    \/ Reply3
    \/ Invoke1
    \/ \E out \in Outcomes1 : Settle1(out)
    \/ Memory0
    \/ Ollama0Invoke
    \/ Ollama0Error
    \/ \E out \in {"text", "empty"} : Ollama0Reply(out)
    \/ Gemini0Invoke
    \/ \E out \in BodyOutcomes : Gemini0Settle(out)
    \/ Unavailable0
    \/ \E ok \in BOOLEAN, t \in TitlesSrv : LazySessionSrv(ok, t)
    \/ Start2
    \/ Ollama2Invoke
    \/ Ollama2Error
    \/ \E out \in {"text", "empty"} : Ollama2Reply(out)
    \/ Gemini2Invoke
    \/ \E out \in BodyOutcomes : Gemini2Settle(out)
    \/ Unavailable2

Spec == Init /\ [][Next]_vars

-----------------------------------------------------------------------------
(* The interval worker next to a request of part_004 that persists its reply *)

(* A running server: one thread of user 1 with one exchange; user 1
   has asked for a new thread, tier 1 has answered and the
   handler is about to persist the exchange *)
SummInit ==
    /\ route = "v4"
    /\ OLLAMA_URL = TRUE
    /\ ai = FALSE
    /\ users = Registered
    /\ chat_sessions = <<NewSession(1, "New Conversation")>>
    /\ chat_records = [i \in 1..2 |-> SeedRecord(i)]
    /\ chatHistory = <<>>
    /\ lastMode = "none"
    /\ summTasks = [i \in 1..(1 + MaxSweeps) |-> FreeTask]
    /\ req = [user |-> 1, session_id |-> NULL, prompt |-> Prompt, mode |-> "casual",
              history |-> <<>>]
    /\ pc = "persist"
    /\ loc = [InitLoc EXCEPT !.currentUserId = 1, !.fullReplyText = <<1>>,
                             !.modelUsed = OllamaLabel, !.tier = 1]
    /\ calls = <<Invocation(1, [instructions |-> "casual", memory |-> <<>>,
                                input |-> Prompt])>>
    /\ timer = FALSE
    /\ late = FALSE
    /\ overran = FALSE
    /\ res = NoRes
    /\ net = NoNet

SummNext ==
    \/ \E ok \in BOOLEAN : BeginPersist4(ok)
    \/ \E ok \in BOOLEAN : SaveUser4(ok)
    \/ \E ok \in BOOLEAN : SaveModel4(ok)
    \/ \E i \in TaskIds, ok \in BOOLEAN : SummRead(i, ok)
    \/ \E i \in TaskIds, out \in TitleOutcomes : SummGenerate(i, out)
    \/ \E i \in TaskIds, ok \in BOOLEAN : SummUpdate(i, ok)
    \/ \E i \in TaskIds, order \in {"asc", "desc"} : SweepTick(i, order)

SummSpec == SummInit /\ [][SummNext]_vars

-----------------------------------------------------------------------------
(* The interval worker of part_004 on an idle server whose database and local
   node answer every time; an owner may rename a thread meanwhile *)

(* Threads without turns, each left behind by a request whose inserts failed
   after its session row was written *)
GhostCounts == {0, SWEEP_BATCH}

(* g threads without turns, then a thread of user 1 with one exchange that no
   run has titled yet; no request is in flight *)
SweepInit ==
    /\ route = "v4"
    /\ OLLAMA_URL = TRUE
    /\ ai = FALSE
    /\ users = Registered
    /\ \E g \in GhostCounts :
          /\ chat_sessions = [i \in 1..(g + 1) |-> NewSession(1, "New Conversation")]
          /\ chat_records = [i \in 1..2 |-> [SeedRecord(i) EXCEPT !.session_id = g + 1]]
    /\ chatHistory = <<>>
    /\ lastMode = "none"
    /\ summTasks = [i \in 1..(1 + MaxSweeps) |-> FreeTask]
    /\ req = NoReq
    /\ pc = "idle"
    /\ loc = InitLoc
    /\ calls = <<>>
    /\ timer = FALSE
    /\ late = FALSE
    /\ overran = FALSE
    /\ res = NoRes
    /\ net = NoNet

SweepNext ==
    \/ \E u \in Registered, sid \in SessionIds : RenameSession(u, sid, TRUE)
    \/ \E i \in TaskIds, order \in {"asc", "desc"} : SweepTick(i, order)
    \/ \E i \in TaskIds : SummRead(i, TRUE)
    \/ \E i \in TaskIds, out \in SummaryTitles : SummGenerate(i, out)
    \/ \E i \in TaskIds : SummUpdate(i, TRUE)

(* setInterval keeps firing the callback, and every run that has started goes
   on to its next step *)
SweepFairness ==
    \A i \in TaskIds :
        /\ WF_vars(\E order \in {"asc", "desc"} : SweepTick(i, order))
        /\ WF_vars(SummRead(i, TRUE))
        /\ WF_vars(\E out \in SummaryTitles : SummGenerate(i, out))
        /\ WF_vars(SummUpdate(i, TRUE))

SweepSpec == SweepInit /\ [][SweepNext]_vars /\ SweepFairness

-----------------------------------------------------------------------------
(* The line buffer of part_005 over every way the network can cut a body *)

(* Most reads a body arrives in *)
MaxReads == 3

(* Bodies of the local tier: two records, the second with an accented letter;
   a record followed by one that is cut off; one record without a final line
   feed; a blank line between two records *)
Bodies ==
    { <<"{", "a", "}", "LF", "{", "C3", "A9", "b", "}", "LF">>,
      <<"{", "a", "}", "LF", "{", "b">>,
      <<"{", "a", "b", "}">>,
      <<"{", "a", "}", "LF", "LF", "{", "b", "}", "LF">> }

(* Every cut of a body into at most n non-empty reads *)
RECURSIVE Splits(_, _)
Splits(bytes, n) ==
    IF bytes = <<>> THEN {<<>>}
    ELSE IF n <= 1 THEN {<<bytes>>}
         ELSE UNION { { <<SubSeq(bytes, 1, k)>> \o rest :
                          rest \in Splits(SubSeq(bytes, k + 1, Len(bytes)), n - 1) } :
                      k \in 1..Len(bytes) }

(* A request of user 1 on thread 1 of part_005 whose local tier has answered
   200: the handler starts to read the body *)
DecoderInit ==
    /\ route = "v5"
    /\ OLLAMA_URL = TRUE
    /\ ai \in BOOLEAN
    /\ users = Registered
    /\ chat_sessions = <<NewSession(1, "New Chat")>>
    /\ chat_records = <<>>
    /\ chatHistory = <<>>
    /\ lastMode = "none"
    /\ summTasks = [i \in 1..(1 + MaxSweeps) |-> FreeTask]
    /\ req = [user |-> 1, session_id |-> 1, prompt |-> Prompt, mode |-> "casual",
              history |-> <<>>]
    /\ pc = "o_stream"
    /\ loc = [InitLoc EXCEPT !.currentUserId = 1, !.activeSessionId = 1,
                             !.isFirstMessage = TRUE, !.modelUsed = OLLAMA_MODEL,
                             !.tier = 1]
    /\ calls = <<Invocation(1, [instructions |-> "casual", memory |-> <<>>,
                                input |-> Prompt])>>
    /\ timer = FALSE
    /\ late = FALSE
    /\ overran = FALSE
    /\ res = [NoRes EXCEPT !.session_id = 1]
    /\ \E binary \in {"Buffer", "Uint8Array"}, body \in Bodies :
          \E reads \in Splits(body, MaxReads) :
              net = [binary |-> binary, stream |-> body, reads |-> reads, buffer |-> <<>>]

DecoderNext == Ollama5Read \/ Ollama5Flush

DecoderSpec == DecoderInit /\ [][DecoderNext]_vars

-----------------------------------------------------------------------------
(* Properties *)

(* The tiers the configuration holds, as waterfall positions in their order *)
ConfiguredTiers ==
    (IF OLLAMA_URL THEN <<1>> ELSE <<>>)
    \o (IF ai THEN [i \in 1..Len(CloudTiers) |-> 1 + i] ELSE <<>>)

(* The tiers invoked so far for the request, in invocation order *)
Invoked == [i \in 1..Len(calls) |-> calls[i].tier]

IsPrefix(s, t) == Len(s) <= Len(t) /\ s = SubSeq(t, 1, Len(s))

(* An attempt is being awaited by the handler *)
AttemptInFlight == pc \in {"t1_wait", "t1_body", "c_wait", "o_wait", "o_body", "o_stream",
                           "g_wait", "g_stream"}

(* The rows the request appended to chat_records *)
IsSeed(r) == \E i \in 1..MaxInitTurns : r.message_text = SeedText(i)
Appended == SelectSeq(chat_records, LAMBDA r : ~IsSeed(r))

(* C1: in the buffered waterfalls of part_004 and part_003, once a tier has
   returned non-empty text no further tier is invoked for the request: from
   the moment the handler holds reply text, the list of invocations never
   grows, so every tier after the one that succeeded has invocation count 0. *)
C1_NoTierAfterSuccess ==
    [][(route \in {"v4", "v3"} /\ Truthy(loc.fullReplyText)) => calls' = calls]_vars

(* C1 witness: cloud tier 2 answered after tier 1 failed, the request is over
   and tiers 3 and 4, which are configured, were never invoked *)
C1_Witness ==
    /\ route = "v4"
    /\ pc = "done"
    /\ res.status = 200
    /\ loc.fullReplyText = <<2>>
    /\ Invoked = <<1, 2>>
    /\ Len(ConfiguredTiers) = 4

(* C2: in part_004 the tiers are attempted in the fixed configured order
   (Ollama first when configured, then AI_WATERFALL in list order), so the
   invocations of a request are always a prefix of the configured list, which
   depends on the configuration only: no tier is invoked twice or out of
   order; and a tier is invoked only while no other attempt is awaited. *)
C2_FixedOrderOnce ==
    /\ [](route = "v4" => IsPrefix(Invoked, ConfiguredTiers))
    /\ [][(route = "v4" /\ calls' # calls) => ~AttemptInFlight]_vars

(* C2 witness: every configured tier of part_004 was attempted, each once and
   in order, and the request ended in exhaustion *)
C2_Witness ==
    /\ route = "v4"
    /\ pc = "done"
    /\ Invoked = <<1, 2, 3, 4>>
    /\ res.kind = "exhausted"

(* C3: a request ends in a generation failure only after every configured
   tier has been attempted once: whatever the reason a tier failed for, the
   dispatcher goes on to the next tier (part_004 and part_001). *)
C3_FailsOnlyAfterAllTiers ==
    (route \in {"v4", "v1"} /\ pc = "done" /\ res.kind \in {"exhausted", "fatal"})
        => Invoked = ConfiguredTiers

(* The assistant rows the request appended *)
AppendedModel == SelectSeq(Appended, LAMBDA r : r.role = "model")

(* No tier produced text for the request *)
NoTierAnswered ==
    /\ Producers(loc.fullReplyText) = {}
    /\ Producers(res.content) = {}

(* C4: if every configured tier fails, the request ends with a
   generation-unavailable failure and the store is left as it was: no user
   turn and no assistant turn, a stored apology included, is appended
   (part_004 and part_005). *)
C4_ExhaustionPersistsNothing ==
    (route \in {"v4", "v5"} /\ pc = "done" /\ NoTierAnswered)
        => /\ Appended = <<>>
           /\ res.kind = "exhausted"

(* Nothing of the request comes from tier 1: neither the reply text held or
   sent, nor a stored assistant row, nor a label *)
NothingFromTier1 ==
    /\ 1 \notin Producers(loc.fullReplyText)
    /\ 1 \notin Producers(res.content)
    /\ loc.modelUsed # OllamaLabel
    /\ res.model_info # OllamaLabel
    /\ \A i \in 1..Len(AppendedModel) :
          /\ 1 \notin Producers(AppendedModel[i].message_text)
          /\ AppendedModel[i].model_used # OllamaLabel

(* C5: in part_004, once the tier-1 attempt has run past CONFIG.OLLAMA_TIMEOUT
   it contributes nothing: the final reply text, the persisted assistant turn
   and the recorded label never come from that attempt, whenever its answer
   arrives. *)
C5_OverrunAttemptDiscarded ==
    (route = "v4" /\ overran) => NothingFromTier1

(* The part of C5 that concerns the abort itself: after controller.abort()
   the answer of the aborted fetch changes nothing *)
AbortedAttemptDiscarded ==
    (route = "v4" /\ loc.aborted) => NothingFromTier1

(* C6: in part_004 every tier attempt is bounded by a timeout: while the
   handler awaits an attempt, local or cloud, headers or body, a timer that
   will abandon that attempt is armed, so the request cannot wait for ever. *)
C6_EveryAttemptHasTimer ==
    (route = "v4" /\ AttemptInFlight) => timer

(* C7: a tier answer without text is that tier's failure: a successful reply
   always holds text a backend produced, and so does every assistant turn
   persisted, never a blank or a substituted text (part_004, part_000,
   part_005). *)
C7_EmptyAnswerIsFailure ==
    route \in {"v4", "v0", "v5"} =>
        /\ res.kind = "success" => Producers(res.content) # {}
        /\ \A i \in 1..Len(AppendedModel) :
              Producers(AppendedModel[i].message_text) # {}
        /\ \A i \in 1..Len(chatHistory) :
              chatHistory[i].role = "assistant" => Producers(chatHistory[i].content) # {}

(* The request names a thread that exists and belongs to another identity *)
ForeignThread ==
    /\ pc # "idle"
    /\ SessionExists(req.session_id)
    /\ chat_sessions[req.session_id].user_id # req.user

(* C8: a chat request for a thread owned by another identity is rejected
   before generation: no tier is invoked, the thread's history is read into
   no prompt, no turn is appended to it, and the request ends with an
   access-denied failure (part_004, server.js). *)
C8_ForeignThreadRejected ==
    (route \in {"v4", "srv"} /\ ForeignThread)
        => /\ calls = <<>>
           /\ loc.chatContext = <<>>
           /\ Appended = <<>>
           /\ pc \in {"done", "crashed"} => res.status = 403

(* C9: the label stored with the assistant turn, and the one returned to the
   caller, is the label of the tier that produced the reply text (part_004,
   part_005). *)
C9_LabelOfProducingTier ==
    route \in {"v4", "v5"} =>
        /\ res.kind = "success" /\ res.model_info # "none" =>
              \A k \in Producers(res.content) : res.model_info = TierLabel(k)
        /\ \A i \in 1..Len(AppendedModel) :
              \A k \in Producers(AppendedModel[i].message_text) :
                 AppendedModel[i].model_used = TierLabel(k)

(* The stored turns of the thread of the request when it arrived *)
SeedsOf(sid) == SelectSeq(RecordsOf(sid), IsSeed)

LastN(s, n) == IF Len(s) <= n THEN s ELSE SubSeq(s, Len(s) - n + 1, Len(s))

Texts(ctx) == [i \in 1..Len(ctx) |-> ctx[i].text]

(* C10: the context handed to a backend never holds more than CONTEXT_WINDOW
   stored turns, and for a thread with more stored turns it is the
   CONTEXT_WINDOW most recent ones, oldest first, unless the history could
   not be read at all (part_004, part_005). *)
C10_ContextIsLastN ==
    route \in {"v4", "v5"} =>
        \A i \in 1..Len(calls) :
            LET memory == calls[i].prompt.memory
                stored == SeedsOf(req.session_id)
            IN  /\ Len(memory) <= CONTEXT_WINDOW
                /\ Len(stored) > CONTEXT_WINDOW =>
                      \/ memory = <<>>
                      \/ Texts(memory) =
                            [j \in 1..CONTEXT_WINDOW |->
                                LastN(stored, CONTEXT_WINDOW)[j].message_text]

(* How often the persona instruction occurs in a tier's request: in the
   instruction slot at the front, and written into the text of the input *)
PersonaCount(p) ==
    (IF p.instructions = "none" THEN 0 ELSE 1)
    + Cardinality({i \in 1..Len(p.input) : <<p.input[i]>> = PersonaText(req.mode)})

(* user or assistant, whatever the serialization calls them *)
RoleClass(role) == IF role \in {"user", "User"} THEN "user" ELSE "assistant"

(* The context memory holds turns read from the store *)
FromStore(memory) == memory # <<>> /\ \E i \in 1..MaxInitTurns : memory[1].text = SeedText(i)

(* C11: for a thread whose stored turns are [u1, a1, u2, a2] and a new prompt
   u3, every tier's request lists the stored turns in that order, each with
   its role, then the new prompt, and holds the persona instruction exactly
   once, in front of the turns (part_004, part_003, part_002). *)
C11_ContextRoundTrip ==
    route \in {"v4", "v3", "v2"} =>
        \A i \in 1..Len(calls) :
            LET p      == calls[i].prompt
                stored == SeedsOf(req.session_id)
            IN  /\ PersonaCount(p) = 1
                /\ p.instructions = req.mode
                /\ Producers(p.input) = {}
                /\ (Len(stored) = 4 /\ FromStore(p.memory)) =>
                      /\ Len(p.memory) = 4
                      /\ \A j \in 1..4 :
                            /\ p.memory[j].text = stored[j].message_text
                            /\ RoleClass(p.memory[j].role) = RoleClass(stored[j].role)

(* C12: every tier invoked for a request receives the persona instruction
   selected for the request, whichever serialization or model it uses
   (part_005, part_004). *)
C12_PersonaNeverOmitted ==
    route \in {"v5", "v4"} =>
        \A i \in 1..Len(calls) :
            /\ PersonaCount(calls[i].prompt) >= 1
            /\ calls[i].prompt.instructions = req.mode

(* The trigger run of a new thread leaves its SELECT of the thread's turns *)
TriggerReads(i) ==
    /\ summTasks[i].kind = "trigger"
    /\ summTasks[i].pc = "read"
    /\ summTasks'[i].pc # "read"

(* C13: the title summarization fired for a new thread reads the thread's
   turns only after the first turns are appended; its read never finds the
   thread without turns *)
C13_TriggerSeesTurns ==
    [][\A i \in TaskIds :
          TriggerReads(i) => RecordsOf(Head(summTasks[i].queue)) # <<>>]_vars

(* C14: the summarizer overwrites a thread's title only while the thread is
   not yet marked summarized: once is_summarized is set, no run of the
   trigger or of a sweep writes the row again *)
C14_TitleOnlyWhileUnsummarized ==
    [][\A sid \in 1..Len(chat_sessions) :
          chat_sessions[sid].is_summarized =>
              chat_sessions'[sid].session_name = chat_sessions[sid].session_name]_vars

(* C15: is_summarized never changes from true back to false *)
C15_SummarizedIsFinal ==
    [][\A sid \in 1..Len(chat_sessions) :
          chat_sessions[sid].is_summarized => chat_sessions'[sid].is_summarized]_vars

(* A thread already marked summarized whose row a second run is about to write *)
C15_Witness ==
    \E sid \in 1..Len(chat_sessions), i \in TaskIds :
        /\ chat_sessions[sid].is_summarized
        /\ summTasks[i].pc = "update"
        /\ Head(summTasks[i].queue) = sid
        /\ summTasks[i].newTitle # chat_sessions[sid].session_name

(* A thread that holds at least one turn and is not yet marked summarized *)
Titleable(sid) ==
    /\ sid \in 1..Len(chat_sessions)
    /\ RecordsOf(sid) # <<>>
    /\ ~chat_sessions[sid].is_summarized

(* The summarizer has titled the thread *)
Titled(sid) ==
    /\ sid \in 1..Len(chat_sessions)
    /\ chat_sessions[sid].is_summarized

(* C17: a thread with at least one turn that is still unsummarized is picked
   up by a later sweep and is eventually titled, however many other
   unsummarized threads there are *)
C17_EventuallyTitled ==
    \A sid \in 1..(SWEEP_BATCH + 2) :
        Titleable(sid) ~> Titled(sid)

(* C16: title summarization never delays the chat reply: whenever the handler
   of a request waits for a title to be generated, the reply of that request
   has already been produced *)
C16_TitleNeverBeforeReply ==
    pc = "title" => res # NoRes

(* C18: every persisted turn references a thread that exists: no turn is
   stored under a client-supplied thread id, a guest placeholder or the id of
   a thread that failed to be created, for which there is no thread row *)
C18_TurnsReferenceThreads ==
    \A k \in 1..Len(chat_records) : SessionExists(chat_records[k].session_id)

(* C19: the chat route surfaces only "all generation backends failed" and
   "thread access denied"; a storage failure while the exchange is saved after
   a successful generation is absorbed and the caller receives the reply *)
C19_OnlyTwoFailuresSurface ==
    (route = "v4" /\ pc = "done") =>
        /\ res.kind \in {"success", "exhausted", "denied"}
        /\ Truthy(loc.fullReplyText) =>
              res.kind = "success" /\ res.content = loc.fullReplyText

(* The texts of the transcript a client can send in the history field *)
TranscriptTexts == {Transcript[n].text : n \in 1..Len(Transcript)}

(* C20: the client-supplied transcript is used as context only for an
   anonymous caller: no backend request made for an authenticated caller
   holds a turn of the request's history field *)
C20_TranscriptOnlyForGuests ==
    req.user # NULL =>
        \A k \in 1..Len(calls) :
            \A j \in 1..Len(calls[k].prompt.memory) :
                calls[k].prompt.memory[j].text \notin TranscriptTexts

(* C21: in the streaming route of part_005 the concatenation of the chunks
   written to the response equals the reply text persisted as the assistant
   turn, whichever tiers answered, failed mid-stream or failed altogether *)
C21_StreamEqualsPersisted ==
    route = "v5" =>
        \A k \in 1..Len(AppendedModel) : AppendedModel[k].message_text = res.content

(* A persisted reply that holds the fragments of a tier that failed mid-stream
   followed by the output of a later tier *)
C21_Witness ==
    /\ route = "v5"
    /\ AppendedModel # <<>>
    /\ Cardinality(Producers(res.content)) > 1

(* C22: the final reply, as streamed and as persisted, is the complete output
   of exactly one tier: the fragments of a tier that failed mid-stream never
   stand in the reply next to the output of a later tier *)
C22_ReplyOfOneTier ==
    route = "v5" =>
        /\ Cardinality(Producers(res.content)) <= 1
        /\ \A k \in 1..Len(AppendedModel) :
              Cardinality(Producers(AppendedModel[k].message_text)) <= 1

(* The step is a whole rename or delete request on a thread *)
SessionManaged == pc = "idle" /\ pc' = "managed"

(* C23: a rename or delete request issued by user A never changes or removes
   a thread, or any turn of a thread, that another user owns *)
C23_ForeignThreadsUntouched ==
    [][SessionManaged =>
          \A sid \in 1..Len(chat_sessions) :
              (SessionExists(sid) /\ chat_sessions[sid].user_id # req'.user) =>
                  /\ chat_sessions'[sid] = chat_sessions[sid]
                  /\ SelectSeq(chat_records', LAMBDA r : r.session_id = sid) = RecordsOf(sid)]_vars

(* The identity a chat request acts for: the user of the token, or the one
   reserved guest user *)
CallerIdentity == IF req.user # NULL THEN req.user ELSE GuestId

(* C24: a successful chat request of part_004 without a thread id has created
   exactly one thread, owned by the caller's identity (the reserved guest user
   for an anonymous caller, never a null owner), and returns that thread's id *)
C24_NewThreadOwnedByCaller ==
    (route = "v4" /\ pc = "done" /\ res.kind = "success" /\ req.session_id = NULL) =>
        /\ Len(chat_sessions) = 2
        /\ res.session_id = 2
        /\ chat_sessions[2].user_id = CallerIdentity

(* The handler of the chat request has ended *)
RequestEnded == pc \in {"done", "crashed"}

(* C25: a chat request of part_004 or server.js stores its user turn and its
   assistant turn as a pair: once the request has ended either both are
   stored, the user turn first, or neither is *)
C25_TurnsStoredAsPair ==
    (route \in {"v4", "srv"} /\ RequestEnded) =>
        \/ Appended = <<>>
        \/ /\ Len(Appended) = 2
           /\ Appended[1].role = "user"
           /\ Appended[2].role = "model"

(* The response fields of the complete records of a body, in order, with the
   body decoded as one UTF-8 text *)
ResponsesOf(body) == Forwarded(SplitLines(Utf8ToString(body)))

(* C26: the line buffer of part_005 is independent of how the body is cut
   into reads: whatever the cut, what has been forwarded is a prefix of the
   response fields of the body's complete records, and once the body has
   ended it is exactly those fields, each once *)
C26_DecoderIgnoresCuts ==
    (route = "v5" /\ net.stream # <<>>) =>
        /\ IsPrefix(res.content, ResponsesOf(net.stream))
        /\ pc # "o_stream" => res.content = ResponsesOf(net.stream)

(* The threads the chat request has created: the store starts with thread 1 *)
CreatedByRequest == 2..Len(chat_sessions)

(* C27: after a chat request of server.js or part_005 has ended, every thread
   the request created holds the request's turns: no empty thread is left
   behind, also when generation fails on every backend *)
C27_NoGhostSession ==
    (route \in {"srv", "v5"} /\ RequestEnded) =>
        \A sid \in CreatedByRequest : RecordsOf(sid) # <<>>

(* C28: every chat request of server.js or part_004 receives an HTTP
   response: when the handler has ended, on whatever path, a response has been
   sent *)
C28_EveryRequestAnswered ==
    (route \in {"srv", "v4"} /\ RequestEnded) => res.status # 0

(* C29: a title that the owner set through the rename endpoint is never
   overwritten afterwards by the background summarizer, be it the immediate
   trigger or a sweep *)
C29_OwnerTitleKept ==
    [][\A sid \in 1..Len(chat_sessions) :
          chat_sessions[sid].session_name = OwnerTitle =>
              chat_sessions'[sid].session_name = OwnerTitle]_vars

(* The sweep runs that have not finished their batch *)
ActiveSweeps == {i \in TaskIds : summTasks[i].kind = "sweep" /\ summTasks[i].pc # "done"}

(* C30: the background sweep limits itself across runs: at any time at most
   one sweep run is active and at most one title request issued by a sweep is
   in flight, even when a run outlasts the interval *)
C30_OneSweepAtATime ==
    /\ Cardinality(ActiveSweeps) <= 1
    /\ Cardinality({i \in ActiveSweeps : summTasks[i].pc = "gen"}) <= 1

====
